---- MODULE Spec2Model ----
(***************************************************************************)
(* Model of the pet-store tool server (src/main.py): twenty tool           *)
(* procedures, each a thin call into fetch_from_petstore, which performs   *)
(* one HTTP round trip inside an `async with httpx.AsyncClient()` block    *)
(* and normalises the response.                                            *)
(*                                                                         *)
(* Python values are represented as follows.                               *)
(*   Optional[X]   a sequence of length <= 1: None is <<>>, x is <<x>>     *)
(*   dict          a function from string keys; {} is <<>>                 *)
(*   List[str]     a sequence of strings                                   *)
(*   Dict payload  an opaque string (the system never looks inside it)     *)
(*   parsed JSON   a record [t |-> type, v |-> text]                       *)
(***************************************************************************)
EXTENDS Integers, Sequences, FiniteSets, TLC

VARIABLES
    task,     \* task[t]: the invocation running in host task t (a coroutine frame)
    wire,     \* wire[t]: what travels on the connection owned by t's AsyncClient
    ncalls,   \* number of tool invocations the host has made
    nreq,     \* number of outbound HTTP requests issued
    module    \* module-level state of main.py (lines 6-10)

vars == <<task, wire, ncalls, nreq, module>>

-----------------------------------------------------------------------------
(* Bounds of the model *)

MaxCalls == 2

Tasks == {"t1", "t2"}

-----------------------------------------------------------------------------
(* Python values *)

None == <<>>

Some(v) == <<v>>

EmptyDict == <<>>

\* Truthiness of an Optional[str] / Optional[bytes]: None and "" are falsy.
Truthy(opt) == opt # None /\ opt[1] # ""

\* Truthiness of an Optional[dict]: None and {} are falsy.
TruthyDict(opt) == opt # None /\ opt[1] # EmptyDict

\* sep.join(xs)
RECURSIVE Join(_, _)
Join(sep, xs) ==
    IF xs = <<>> THEN ""
    ELSE IF Len(xs) = 1 THEN xs[1]
    ELSE xs[1] \o sep \o Join(sep, Tail(xs))

\* {k: v for k, v in d.items() if v is not None}, d a dict of Optional values
DropNone(d) == [k \in {k \in DOMAIN d : d[k] # None} |-> d[k][1]]

-----------------------------------------------------------------------------
(* Module-level constants *)

PETSTORE_API_BASE == "https://petstore3.swagger.io/api/v3"

USER_AGENT == "petstore-mcp-agent/1.0"

Procedures ==
    { "add_pet", "update_pet", "find_pets_by_status", "find_pets_by_tags",
      "get_pet_by_id", "update_pet_with_form", "delete_pet", "upload_file",
      "get_inventory", "place_order", "get_order_by_id", "delete_order",
      "create_user", "create_users_with_array_input",
      "create_users_with_list_input", "login_user", "logout_user",
      "get_user_by_name", "update_user", "delete_user" }

ModuleInit ==
    [ base |-> PETSTORE_API_BASE, user_agent |-> USER_AGENT, tools |-> Procedures ]

-----------------------------------------------------------------------------
(* The tool procedures.  Each operator is the body of the procedure up to   *)
(* its call of fetch_from_petstore: it yields the arguments of that call.   *)
(* `extra` holds the keyword arguments passed beyond method, path, params,  *)
(* json and headers.                                                        *)

FetchArgs(method, path, params, json, headers, extra) ==
    [ method |-> method, path |-> path, params |-> params, json |-> json,
      headers |-> headers, extra |-> extra ]

add_pet(body) == FetchArgs("POST", "/pet", None, Some(body), None, {})

update_pet(body) == FetchArgs("PUT", "/pet", None, Some(body), None, {})

find_pets_by_status(status) ==
    FetchArgs("GET", "/pet/findByStatus",
              Some([k \in {"status"} |-> Join(",", status)]), None, None, {})

find_pets_by_tags(tags) ==
    FetchArgs("GET", "/pet/findByTags",
              Some([k \in {"tags"} |-> Join(",", tags)]), None, None, {})

get_pet_by_id(pet_id) ==
    FetchArgs("GET", "/pet/" \o ToString(pet_id), None, None, None, {})

\* Variant: name and status filtered by truthiness, as delete_pet filters api_key.
update_pet_with_form_Truthy(pet_id, name, status) ==
    LET d == [k \in {"name", "status"} |-> IF k = "name" THEN name ELSE status]
        data == [k \in {k \in DOMAIN d : Truthy(d[k])} |-> d[k][1]]
    IN  FetchArgs("POST", "/pet/" \o ToString(pet_id), Some(data), None, None, {})

update_pet_with_form(pet_id, name, status) ==
    LET data == DropNone([k \in {"name", "status"} |->
                             IF k = "name" THEN name ELSE status])
    IN  FetchArgs("POST", "/pet/" \o ToString(pet_id), Some(data), None, None, {})

delete_pet(pet_id, api_key) ==
    LET headers == IF Truthy(api_key)
                   THEN [k \in {"api_key"} |-> api_key[1]]
                   ELSE EmptyDict
    IN  FetchArgs("DELETE", "/pet/" \o ToString(pet_id), None, None, Some(headers), {})

upload_file(pet_id, additional_metadata, file) ==
    LET data == IF Truthy(additional_metadata)
                THEN [k \in {"additionalMetadata"} |-> additional_metadata[1]]
                ELSE EmptyDict
    IN  FetchArgs("POST", "/pet/" \o ToString(pet_id) \o "/uploadImage",
                  Some(data), None, None, {"files"})

get_inventory == FetchArgs("GET", "/store/inventory", None, None, None, {})

place_order(body) == FetchArgs("POST", "/store/order", None, Some(body), None, {})

get_order_by_id(order_id) ==
    FetchArgs("GET", "/store/order/" \o ToString(order_id), None, None, None, {})

delete_order(order_id) ==
    FetchArgs("DELETE", "/store/order/" \o ToString(order_id), None, None, None, {})

create_user(body) == FetchArgs("POST", "/user", None, Some(body), None, {})

create_users_with_array_input(body) ==
    FetchArgs("POST", "/user/createWithArray", None, Some(body), None, {})

create_users_with_list_input(body) ==
    FetchArgs("POST", "/user/createWithList", None, Some(body), None, {})

login_user(username, password) ==
    FetchArgs("GET", "/user/login",
              Some([k \in {"username", "password"} |->
                       IF k = "username" THEN username ELSE password]),
              None, None, {})

logout_user == FetchArgs("GET", "/user/logout", None, None, None, {})

get_user_by_name(username) ==
    FetchArgs("GET", "/user/" \o username, None, None, None, {})

update_user(username, body) ==
    FetchArgs("PUT", "/user/" \o username, None, Some(body), None, {})

delete_user(username) ==
    FetchArgs("DELETE", "/user/" \o username, None, None, None, {})

\* Procedures that end in `return response_data`; the others await the call,
\* drop its value and `return None`.
ReturnsData ==
    { "add_pet", "update_pet", "find_pets_by_status", "find_pets_by_tags",
      "get_pet_by_id", "upload_file", "get_inventory", "place_order",
      "get_order_by_id", "login_user", "get_user_by_name" }

-----------------------------------------------------------------------------
(* Tool invocations the host can make.  An invocation names the procedure   *)
(* and carries its arguments; the fields a procedure does not take keep     *)
(* their default.                                                           *)
(*   id    pet_id / order_id                                                *)
(*   user  username                                                         *)
(*   opt1  name / api_key / additional_metadata / password                  *)
(*   opt2  status (update_pet_with_form) / file                             *)
(*   list  status / tags list                                               *)
(*   body  the Dict / List[Dict] payload                                    *)

ToolCall(proc, id, user, opt1, opt2, list, body) ==
    [ proc |-> proc, id |-> id, user |-> user, opt1 |-> opt1, opt2 |-> opt2,
      list |-> list, body |-> body ]

NoCall == ToolCall("", 0, "", None, None, <<>>, "")

Ids == {1, 2}

Payloads == {"{\"id\":1,\"name\":\"rex\"}"}

ListPayloads == {"[{\"username\":\"alice\"}]"}

Usernames == {"alice"}

OptStrings == {None, Some(""), Some("x")}

StringLists == {<<>>, <<"available">>, <<"available", "sold">>}

Calls ==
    {ToolCall(p, 0, "", None, None, <<>>, b) :
        p \in {"add_pet", "update_pet", "place_order", "create_user"}, b \in Payloads}
    \cup {ToolCall(p, 0, "", None, None, <<>>, b) :
        p \in {"create_users_with_array_input", "create_users_with_list_input"},
        b \in ListPayloads}
    \cup {ToolCall(p, 0, "", None, None, l, "") :
        p \in {"find_pets_by_status", "find_pets_by_tags"}, l \in StringLists}
    \cup {ToolCall(p, i, "", None, None, <<>>, "") :
        p \in {"get_pet_by_id", "get_order_by_id", "delete_order"}, i \in Ids}
    \cup {ToolCall("update_pet_with_form", 1, "", n, s, <<>>, "") :
        n \in OptStrings, s \in OptStrings}
    \cup {ToolCall("delete_pet", 1, "", k, None, <<>>, "") : k \in OptStrings}
    \cup {ToolCall("upload_file", 1, "", m, f, <<>>, "") :
        m \in {None, Some("x")}, f \in {None, Some("x")}}
    \cup {ToolCall(p, 0, "", None, None, <<>>, "") : p \in {"get_inventory", "logout_user"}}
    \cup {ToolCall("login_user", 0, u, Some("secret"), None, <<>>, "") : u \in Usernames}
    \cup {ToolCall(p, 0, u, None, None, <<>>, "") :
        p \in {"get_user_by_name", "delete_user"}, u \in Usernames}
    \cup {ToolCall("update_user", 0, u, None, None, <<>>, b) :
        u \in Usernames, b \in Payloads}

\* The tool-invocation transport dispatches by name (the @mcp.tool() registry).
Dispatch(c) ==
    CASE c.proc = "add_pet" -> add_pet(c.body)
      [] c.proc = "update_pet" -> update_pet(c.body)
      [] c.proc = "find_pets_by_status" -> find_pets_by_status(c.list)
      [] c.proc = "find_pets_by_tags" -> find_pets_by_tags(c.list)
      [] c.proc = "get_pet_by_id" -> get_pet_by_id(c.id)
      [] c.proc = "update_pet_with_form" -> update_pet_with_form(c.id, c.opt1, c.opt2)
      [] c.proc = "delete_pet" -> delete_pet(c.id, c.opt1)
      [] c.proc = "upload_file" -> upload_file(c.id, c.opt1, c.opt2)
      [] c.proc = "get_inventory" -> get_inventory
      [] c.proc = "place_order" -> place_order(c.body)
      [] c.proc = "get_order_by_id" -> get_order_by_id(c.id)
      [] c.proc = "delete_order" -> delete_order(c.id)
      [] c.proc = "create_user" -> create_user(c.body)
      [] c.proc = "create_users_with_array_input" -> create_users_with_array_input(c.body)
      [] c.proc = "create_users_with_list_input" -> create_users_with_list_input(c.body)
      [] c.proc = "login_user" -> login_user(c.user, c.opt1[1])
      [] c.proc = "logout_user" -> logout_user
      [] c.proc = "get_user_by_name" -> get_user_by_name(c.user)
      [] c.proc = "update_user" -> update_user(c.user, c.body)
      [] c.proc = "delete_user" -> delete_user(c.user)

-----------------------------------------------------------------------------
(* fetch_from_petstore *)

\* The call binds to the signature (method, path, params, json, headers);
\* any other keyword makes Python raise TypeError before the body runs.
Binds(args) == args.extra = {}

\* headers = headers or {'User-Agent': ..., "Content-Type": ...}
DefaultHeaders ==
    [k \in {"User-Agent", "Content-Type"} |->
        IF k = "User-Agent" THEN USER_AGENT ELSE "application/json"]

fetch_headers(headers) == IF TruthyDict(headers) THEN headers[1] ELSE DefaultHeaders

\* The arguments of client.request(method, url, params=, json=, headers=, timeout=30.0)
BuildRequest(args) ==
    [ method |-> args.method, url |-> PETSTORE_API_BASE \o args.path,
      params |-> args.params, json |-> args.json,
      headers |-> fetch_headers(args.headers), timeout |-> 30 ]

NoRequest == None

\* What the remote end can make the await of client.request end in: a
\* response (status, body), or a transport exception of httpx.
Statuses == {200, 201, 204, 302, 404, 500}

Bodies == {"", "abc123", "\"abc123\"", "{\"id\":1}"}

TransportErrors == {"ConnectError", "ReadTimeout"}

Response(status, body, exc, origin) ==
    [ status |-> status, body |-> body, exc |-> exc, origin |-> origin ]

Responses(origin) ==
    {Response(s, b, "", origin) : s \in Statuses, b \in Bodies}
    \cup {Response(0, "", e, origin) : e \in TransportErrors}

\* response.raise_for_status(): httpx raises HTTPStatusError unless 2xx.
is_success(status) == status \div 100 = 2

\* Variant: the 204 test is missing.
NoContent_Absent(status) == FALSE

\* `if response.status_code == 204`
NoContent(status) == status = 204

\* response.json(): json.loads of the body text; JSONDecodeError (a
\* ValueError) when the text is not a JSON document.
JsonValue(t, v) == [t |-> t, v |-> v]

IsJson(body) == body \in {"\"abc123\"", "{\"id\":1}"}

ResponseJson(body) ==
    CASE body = "{\"id\":1}" -> JsonValue("object", "{\"id\":1}")
      [] body = "\"abc123\"" -> JsonValue("string", "abc123")

\* Variant: `except httpx.HTTPStatusError`.
IsHTTPError_StatusOnly(exc) == exc = "HTTPStatusError"

\* `except httpx.HTTPError`: the classes that derive from httpx.HTTPError.
IsHTTPError(exc) == exc \in {"ConnectError", "ReadTimeout", "HTTPStatusError"}

Outcome(kind, value, exc, logged, from) ==
    [ kind |-> kind, value |-> value, exc |-> exc, logged |-> logged, from |-> from ]

NoOutcome == Outcome("", None, "", FALSE, "")

\* The body of the try block: the exception it raises ("" when none).
TryRaises(resp) ==
    IF resp.exc # "" THEN resp.exc
    ELSE IF ~is_success(resp.status) THEN "HTTPStatusError"
    ELSE IF NoContent(resp.status) THEN ""
    ELSE IF ~IsJson(resp.body) THEN "JSONDecodeError"
    ELSE ""

\* The value the try block returns when it raises nothing.
TryReturns(resp) ==
    IF NoContent(resp.status) THEN None ELSE Some(ResponseJson(resp.body))

\* try / except httpx.HTTPError: print, return None.
fetch_result(resp) ==
    LET e == TryRaises(resp)
    IN  IF e = "" THEN Outcome("return", TryReturns(resp), "", FALSE, resp.origin)
        ELSE IF IsHTTPError(e) THEN Outcome("return", None, "", TRUE, resp.origin)
        ELSE Outcome("raise", None, e, FALSE, resp.origin)

\* Variant: the client is closed by a call at the end of the block, which an
\* exception skips.
AsyncClientExit_OnReturnOnly(out) == IF out.kind = "raise" THEN "open" ELSE "closed"

\* `async with httpx.AsyncClient() as client`: __aexit__ closes the client
\* however the block is left.
AsyncClientExit(out) == "closed"

\* Variant: a failed request is tried again.
AfterResponse_Retry(out) == IF out.logged THEN "opened" ELSE "closing"

\* Where control goes once the try statement has produced its outcome: out
\* of the `async with` block (there is no loop around the request).
AfterResponse(out) == "closing"

\* Variant: one client shared by all invocations, whose await resumes with
\* whichever response has arrived.
ResponseFor_Shared(t, w) ==
    LET others == {u \in DOMAIN w \ {t} : w[u] # None}
    IN  IF others # {} THEN w[CHOOSE u \in others : TRUE] ELSE w[t]

\* The response the await of client.request resumes with: the one that
\* arrived on the connection of the task's own client.
ResponseFor(t, w) == w[t]

\* What the tool procedure hands back: response_data, or None for the
\* procedures that drop it.
ToolResult(proc, out) ==
    IF out.kind = "return" /\ proc \notin ReturnsData
    THEN [out EXCEPT !.value = None]
    ELSE out

-----------------------------------------------------------------------------
(* State machine.  A host task runs one invocation at a time; the steps of  *)
(* an invocation are separated by its awaits.                               *)
(*   pc      idle, opened, awaiting, closing, returned, raised              *)
(*   call    the invocation (NoCall when idle)                              *)
(*   req     the request handed to client.request (None before that)        *)
(*   client  none, open, closed: the AsyncClient of this invocation         *)
(*   sent    requests this invocation has put on the wire                   *)
(*   resp    the response the await resumed with (None before that)         *)
(*   out     the outcome: returned value or raised exception                *)

Frame(pc, call, req, client, sent, resp, out) ==
    [ pc |-> pc, call |-> call, req |-> req, client |-> client, sent |-> sent,
      resp |-> resp, out |-> out ]

IdleFrame == Frame("idle", NoCall, NoRequest, "none", 0, None, NoOutcome)

Init ==
    /\ task = [t \in Tasks |-> IdleFrame]
    /\ wire = [t \in Tasks |-> None]
    /\ ncalls = 0
    /\ nreq = 0
    /\ module = ModuleInit

\* The host invokes a tool.  The procedure body runs up to the call of
\* fetch_from_petstore; when the call does not bind, TypeError leaves the
\* procedure at once.  Otherwise fetch_from_petstore builds url and headers
\* and enters the `async with` block.
Invoke(t, c) ==
    /\ task[t].pc = "idle"
    /\ ncalls < MaxCalls
    /\ ncalls' = ncalls + 1
    /\ LET args == Dispatch(c)
       IN  task' = [task EXCEPT ![t] =
               IF Binds(args)
               THEN Frame("opened", c, Some(BuildRequest(args)), "open", 0, None, NoOutcome)
               ELSE Frame("raised", c, NoRequest, "none", 0, None,
                          Outcome("raise", None, "TypeError", FALSE, ""))]
    /\ UNCHANGED <<wire, nreq, module>>

\* await client.request(...): the request goes out and the task suspends.
Send(t) ==
    /\ task[t].pc = "opened"
    /\ task' = [task EXCEPT ![t].pc = "awaiting", ![t].sent = @ + 1]
    /\ nreq' = nreq + 1
    /\ UNCHANGED <<wire, ncalls, module>>

\* The remote end answers the request of task t (or the transport fails,
\* or the 30 s timeout elapses) on t's connection.
Respond(t) ==
    /\ task[t].pc = "awaiting"
    /\ wire[t] = None
    /\ \E r \in Responses(t) : wire' = [wire EXCEPT ![t] = Some(r)]
    /\ UNCHANGED <<task, ncalls, nreq, module>>

\* The await resumes; the rest of the try statement runs without suspending.
Receive(t) ==
    /\ task[t].pc = "awaiting"
    /\ ResponseFor(t, wire) # None
    /\ LET r == ResponseFor(t, wire)[1]
           out == fetch_result(r)
       IN  task' = [task EXCEPT ![t].pc = AfterResponse(out),
                                ![t].resp = Some(r),
                                ![t].out = out]
    /\ wire' = [wire EXCEPT ![t] = None]
    /\ UNCHANGED <<ncalls, nreq, module>>

\* Leaving the `async with` block, then the tool procedure itself.
Exit(t) ==
    /\ task[t].pc = "closing"
    /\ task' = [task EXCEPT
                  ![t].pc = IF task[t].out.kind = "raise" THEN "raised" ELSE "returned",
                  ![t].client = AsyncClientExit(task[t].out),
                  ![t].out = ToolResult(task[t].call.proc, task[t].out)]
    /\ UNCHANGED <<wire, ncalls, nreq, module>>

\* The host takes the result; the task is free for the next invocation.
Collect(t) ==
    /\ task[t].pc \in {"returned", "raised"}
    /\ task' = [task EXCEPT ![t] = IdleFrame]
    /\ UNCHANGED <<wire, ncalls, nreq, module>>

\* Invocations made one after another by a single host task.
Next ==
    \/ \E c \in Calls : Invoke("t1", c)
    \/ Send("t1")
    \/ Respond("t1")
    \/ Receive("t1")
    \/ Exit("t1")
    \/ Collect("t1")

Spec == Init /\ [][Next]_vars

\* Two host tasks running invocations concurrently.
ConcCalls ==
    {c \in Calls : c.proc \in {"get_pet_by_id", "login_user", "delete_order", "upload_file"}}

NextConc ==
    \E t \in Tasks :
        \/ \E c \in ConcCalls : Invoke(t, c)
        \/ Send(t)
        \/ Respond(t)
        \/ Receive(t)
        \/ Exit(t)
        \/ Collect(t)

SpecConc == Init /\ [][NextConc]_vars

TypeOK ==
    /\ \A t \in Tasks :
        /\ task[t].pc \in {"idle", "opened", "awaiting", "closing", "returned", "raised"}
        /\ task[t].client \in {"none", "open", "closed"}
        /\ task[t].call \in Calls \cup {NoCall}
    /\ ncalls \in 0..MaxCalls
    /\ nreq \in Nat

-----------------------------------------------------------------------------
(* Properties *)

\* The invocation of task t has put its request on the wire.
Requested(t) == task[t].pc \in {"awaiting", "closing", "returned", "raised"}

\* The invocation of task t has come to its end.
Done(t) == task[t].pc \in {"returned", "raised"}

\* The await of task t has resumed with a response or a transport error.
Answered(t) == task[t].resp # None

\* The transport failed, or the response carries a status outside 200..299.
Failed(r) == r.exc # "" \/ r.status < 200 \/ r.status > 299

\* A response with a status in 200..299.
Succeeded(r) == r.exc = "" /\ r.status >= 200 /\ r.status <= 299

\* The query parameters of a request: those of params, none when params is None.
Query(req) == IF req.params = None THEN EmptyDict ELSE req.params[1]

\* The table of tool procedures: method, path, query parameters, JSON body,
\* api_key header and multipart file of the request each invocation is to make.
Row(method, path, query, json, api_key, file) ==
    [ method |-> method, path |-> path, query |-> query, json |-> json,
      api_key |-> api_key, file |-> file ]

Present(d) == [k \in {k \in DOMAIN d : d[k] # None} |-> d[k][1]]

TableRow(c) ==
    CASE c.proc = "add_pet" -> Row("POST", "/pet", EmptyDict, Some(c.body), None, None)
      [] c.proc = "update_pet" -> Row("PUT", "/pet", EmptyDict, Some(c.body), None, None)
      [] c.proc = "find_pets_by_status" ->
            Row("GET", "/pet/findByStatus", [status |-> Join(",", c.list)], None, None, None)
      [] c.proc = "find_pets_by_tags" ->
            Row("GET", "/pet/findByTags", [tags |-> Join(",", c.list)], None, None, None)
      [] c.proc = "get_pet_by_id" ->
            Row("GET", "/pet/" \o ToString(c.id), EmptyDict, None, None, None)
      [] c.proc = "update_pet_with_form" ->
            Row("POST", "/pet/" \o ToString(c.id),
                Present([name |-> c.opt1, status |-> c.opt2]), None, None, None)
      [] c.proc = "delete_pet" ->
            Row("DELETE", "/pet/" \o ToString(c.id), EmptyDict, None, c.opt1, None)
      [] c.proc = "upload_file" ->
            Row("POST", "/pet/" \o ToString(c.id) \o "/uploadImage",
                Present([additionalMetadata |-> c.opt1]), None, None, c.opt2)
      [] c.proc = "get_inventory" -> Row("GET", "/store/inventory", EmptyDict, None, None, None)
      [] c.proc = "place_order" ->
            Row("POST", "/store/order", EmptyDict, Some(c.body), None, None)
      [] c.proc = "get_order_by_id" ->
            Row("GET", "/store/order/" \o ToString(c.id), EmptyDict, None, None, None)
      [] c.proc = "delete_order" ->
            Row("DELETE", "/store/order/" \o ToString(c.id), EmptyDict, None, None, None)
      [] c.proc = "create_user" -> Row("POST", "/user", EmptyDict, Some(c.body), None, None)
      [] c.proc = "create_users_with_array_input" ->
            Row("POST", "/user/createWithArray", EmptyDict, Some(c.body), None, None)
      [] c.proc = "create_users_with_list_input" ->
            Row("POST", "/user/createWithList", EmptyDict, Some(c.body), None, None)
      [] c.proc = "login_user" ->
            Row("GET", "/user/login", [username |-> c.user, password |-> c.opt1[1]],
                None, None, None)
      [] c.proc = "logout_user" -> Row("GET", "/user/logout", EmptyDict, None, None, None)
      [] c.proc = "get_user_by_name" ->
            Row("GET", "/user/" \o c.user, EmptyDict, None, None, None)
      [] c.proc = "update_user" ->
            Row("PUT", "/user/" \o c.user, EmptyDict, Some(c.body), None, None)
      [] c.proc = "delete_user" ->
            Row("DELETE", "/user/" \o c.user, EmptyDict, None, None, None)

\* The request carries exactly what the row says.  client.request is given
\* no multipart content, so a row with a file is matched by no request.
Matches(req, row) ==
    /\ req.method = row.method
    /\ req.url = PETSTORE_API_BASE \o row.path
    /\ Query(req) = row.query
    /\ req.json = row.json
    /\ IF row.api_key = None
       THEN "api_key" \notin DOMAIN req.headers
       ELSE "api_key" \in DOMAIN req.headers /\ req.headers["api_key"] = row.api_key[1]
    /\ row.file = None

\* C1: every invocation of every procedure, when it ends, has made exactly
\* one outbound request, and that request is the one its row of the table
\* describes.
C1_OneRequestPerTable ==
    \A t \in Tasks :
        Done(t) =>
            /\ task[t].sent = 1
            /\ task[t].req # None
            /\ Matches(task[t].req[1], TableRow(task[t].call))

\* The same statement for the invocations other than upload_file and
\* delete_pet with an empty api_key: for those the code follows the table.
C1_TableElsewhere ==
    \A t \in Tasks :
        /\ task[t].pc # "idle"
        /\ task[t].call.proc # "upload_file"
        /\ ~(task[t].call.proc = "delete_pet" /\ task[t].call.opt1 = Some(""))
        => /\ task[t].req # None
           /\ Matches(task[t].req[1], TableRow(task[t].call))
           /\ Done(t) => task[t].sent = 1

\* C2: when the request of an invocation ended in a transport error or in
\* a response with a status outside 2xx, the invocation returns None and
\* raises nothing.
C2_FailureYieldsNone ==
    \A t \in Tasks :
        Answered(t) /\ Failed(task[t].resp[1]) =>
            /\ task[t].pc # "raised"
            /\ task[t].out.kind = "return"
            /\ task[t].out.value = None

C2_Witness ==
    \E t \in Tasks :
        /\ task[t].pc = "returned"
        /\ task[t].call.proc \in ReturnsData
        /\ Answered(t)
        /\ task[t].resp[1].exc = "ReadTimeout"

\* C3: login_user answered with status 200 and the bare text abc123
\* returns the string abc123.
C3_LoginReturnsText ==
    \A t \in Tasks :
        /\ task[t].call.proc = "login_user"
        /\ Done(t)
        /\ Answered(t)
        /\ task[t].resp[1].exc = ""
        /\ task[t].resp[1].status = 200
        /\ task[t].resp[1].body = "abc123"
        => /\ task[t].pc = "returned"
           /\ task[t].out.value = Some(JsonValue("string", "abc123"))

\* C4: an invocation whose request was answered with status 204 returns
\* None, whatever the body of the response.
C4_NoContentYieldsNone ==
    \A t \in Tasks :
        Answered(t) /\ task[t].resp[1].exc = "" /\ task[t].resp[1].status = 204 =>
            /\ task[t].pc # "raised"
            /\ task[t].out.kind = "return"
            /\ task[t].out.value = None

C4_Witness ==
    \E t \in Tasks :
        /\ task[t].pc = "returned"
        /\ task[t].call.proc \in ReturnsData
        /\ Answered(t)
        /\ task[t].resp[1].status = 204
        /\ task[t].resp[1].body = "{\"id\":1}"

\* C5: the DELETE /pet/{pet_id} request of delete_pet carries a header
\* api_key with the argument's value when api_key was supplied, and no
\* header of that name when it was omitted.
C5_ApiKeyHeader ==
    \A t \in Tasks :
        task[t].call.proc = "delete_pet" /\ Requested(t) =>
            LET req == task[t].req[1]
                api_key == task[t].call.opt1
            IN  /\ req.method = "DELETE"
                /\ req.url = PETSTORE_API_BASE \o "/pet/" \o ToString(task[t].call.id)
                /\ api_key # None =>
                      /\ "api_key" \in DOMAIN req.headers
                      /\ req.headers["api_key"] = api_key[1]
                /\ api_key = None => "api_key" \notin DOMAIN req.headers

\* The part of C5 the code keeps: a non-empty api_key travels as the
\* header, an omitted or empty one leaves no header of that name.
C5_NonEmptyApiKeyHeader ==
    \A t \in Tasks :
        task[t].call.proc = "delete_pet" /\ Requested(t) =>
            LET req == task[t].req[1]
                api_key == task[t].call.opt1
            IN  IF api_key # None /\ api_key[1] # ""
                THEN "api_key" \in DOMAIN req.headers /\ req.headers["api_key"] = api_key[1]
                ELSE "api_key" \notin DOMAIN req.headers

\* C6: the query parameters of the POST /pet/{pet_id} request of
\* update_pet_with_form are exactly the supplied ones among name and
\* status, each with its value.
C6_FormParams ==
    \A t \in Tasks :
        task[t].call.proc = "update_pet_with_form" /\ task[t].pc # "idle" =>
            /\ task[t].req # None
            /\ LET req == task[t].req[1]
                   name == task[t].call.opt1
                   status == task[t].call.opt2
               IN  /\ req.method = "POST"
                   /\ req.url = PETSTORE_API_BASE \o "/pet/" \o ToString(task[t].call.id)
                   /\ req.params # None
                   /\ ("name" \in DOMAIN req.params[1]) <=> (name # None)
                   /\ ("status" \in DOMAIN req.params[1]) <=> (status # None)
                   /\ DOMAIN req.params[1] \subseteq {"name", "status"}
                   /\ name # None => req.params[1]["name"] = name[1]
                   /\ status # None => req.params[1]["status"] = status[1]

C6_Witness ==
    \E t \in Tasks :
        /\ task[t].call.proc = "update_pet_with_form"
        /\ Requested(t)
        /\ task[t].call.opt1 = Some("")
        /\ task[t].call.opt2 = None
        /\ DOMAIN task[t].req[1].params[1] = {"name"}

\* C7: with two invocations interleaving, each resumes with, and returns
\* the value derived from, the response to its own request, and the
\* module-level state is never written.
C7_OwnResponse ==
    /\ module = ModuleInit
    /\ \A t \in Tasks :
        Answered(t) =>
            /\ task[t].resp[1].origin = t
            /\ task[t].out.from = t
            /\ Done(t) =>
                  task[t].out = ToolResult(task[t].call.proc, fetch_result(task[t].resp[1]))

C7_Witness ==
    /\ task["t1"].pc = "returned"
    /\ task["t1"].call.proc = "get_pet_by_id"
    /\ task["t1"].out.value = Some(JsonValue("object", "{\"id\":1}"))
    /\ task["t2"].pc = "awaiting"
    /\ task["t2"].call.proc = "login_user"
    /\ wire["t2"] # None
    /\ wire["t2"][1].status = 404

\* C8: a success response with an empty body makes fetch_from_petstore
\* return None; it does not raise.
C8_EmptyBodyYieldsNone ==
    \A t \in Tasks :
        /\ task[t].pc = "closing"
        /\ Succeeded(task[t].resp[1])
        /\ task[t].resp[1].body = ""
        => /\ task[t].out.kind = "return"
           /\ task[t].out.value = None

\* C9: no invocation ends with its client still open.
C9_ClientReleased ==
    \A t \in Tasks : task[t].pc \in {"idle", "returned", "raised"} => task[t].client # "open"

C9_Witness ==
    \E t \in Tasks :
        /\ task[t].pc = "raised"
        /\ task[t].out.exc = "JSONDecodeError"
        /\ task[t].client = "closed"

\* C10: no invocation puts more than one request on the wire, and the
\* requests made never outnumber the invocations.
C10_AtMostOneAttempt ==
    /\ nreq <= ncalls
    /\ \A t \in Tasks : task[t].sent <= 1

C10_Witness ==
    \E t \in Tasks :
        /\ task[t].pc = "returned"
        /\ Failed(task[t].resp[1])
        /\ task[t].sent = 1
        /\ ncalls = 2
        /\ nreq = 2

====
